---- MODULE Spec2Model ----
(***************************************************************************)
(* Model of the sizing engine of jlpontes/sizing-specialist-agent:         *)
(*   src/logic_sizing.py                 data_preparation, client_ambient, *)
(*                                       rperf_calc, rank_cenarios         *)
(*   src/Agente/Gemini/sizing_tool.py    run_sizing_tool                   *)
(*   src/api.py                          calcular_sizing                   *)
(*   src/Agente/Llama/agente-llama.py    calcular_cenarios_de_sizing       *)
(*                                                                         *)
(* Numbers.  The program computes with Python floats.  The model computes  *)
(* with exact rationals <<n, d>> (d > 0, lowest terms).  Every input set   *)
(* below is chosen so that the float computation is exact or is rounded    *)
(* far away from the integers and thresholds it is compared to: per-core   *)
(* performances are k/2, utilizations and growth rates are multiples of    *)
(* 1/2, and quotients have denominators 1, 2, 3 or 6.  The two V rows of   *)
(* the hosts' table (25/32 and 33/26 per core) are the exception: they are *)
(* there for the rounding to two decimals in api.py, and the rankings the  *)
(* model gives for them were compared with those CPython computes.         *)
(***************************************************************************)
EXTENDS Integers, Sequences, FiniteSets, TLC

VARIABLES
    host,                   \* which program runs: "lib", "cli", "gemini", "api", "agent"
    pc,                     \* position of the program
    csv,                    \* the rows of rperf_tabela.csv
    df,                     \* the full performance table
    df_alvo,                \* the p10/p11 rows of df
    linhas,                 \* the inventory lines supplied so far (the request's input)
    inventario_client,      \* the inventory dictionary, in insertion order
    rperf_base,             \* rPerf of the current environment
    rperf_final_requerido,  \* rPerf handed to the ranking
    projecao,               \* the growth parameters supplied (the rate as a fraction)
    cenarios_validos,       \* the feasible scenarios of the last ranking
    melhores_por_modelo,    \* the champions of the last ranking, one per family
    top_cenarios,           \* the list returned by the last ranking
    outcome,                \* how the last operation ended
    colunas,                \* the columns of the header of rperf_tabela.csv
    atendidas,              \* the requests the host has answered so far
    detail                  \* the model references the caller's error message names

vars == <<host, pc, csv, df, df_alvo, linhas, inventario_client, rperf_base,
          rperf_final_requerido, projecao, cenarios_validos, melhores_por_modelo,
          top_cenarios, outcome, colunas, atendidas, detail>>

----------------------------------------------------------------------------
(* Exact rational arithmetic standing for the float arithmetic.            *)

Abs(n) == IF n < 0 THEN -n ELSE n

RECURSIVE Gcd(_, _)
Gcd(a, b) == IF b = 0 THEN a ELSE Gcd(b, a % b)

\* n/d in lowest terms with a positive denominator (d # 0).
Rat(n, d) ==
    LET g == Gcd(Abs(n), Abs(d))
        s == IF d < 0 THEN -1 ELSE 1
    IN  <<(s * n) \div g, (s * d) \div g>>

RInt(k) == <<k, 1>>
RAdd(a, b) == Rat(a[1] * b[2] + b[1] * a[2], a[2] * b[2])
RSub(a, b) == Rat(a[1] * b[2] - b[1] * a[2], a[2] * b[2])
RMul(a, b) == Rat(a[1] * b[1], a[2] * b[2])
RDiv(a, b) == Rat(a[1] * b[2], a[2] * b[1])
RLt(a, b) == a[1] * b[2] < b[1] * a[2]
RLe(a, b) == a[1] * b[2] <= b[1] * a[2]
RIsZero(a) == a[1] = 0

\* math.ceil: the least integer >= a.
RCeil(a) == -((-a[1]) \div a[2])

RECURSIVE RPow(_, _)
\* a ** k for an integer k >= 0 (a ** 0 = 1, also for a = 0).
RPow(a, k) == IF k = 0 THEN RInt(1) ELSE RMul(a, RPow(a, k - 1))

----------------------------------------------------------------------------
(* The performance table.  A row of rperf_tabela.csv is a record           *)
(*   [Modelo_Unico, Modelo_Base, Cores_Maximos, rPerf_Total, Processador]  *)
(* whose Cores_Maximos is the text of the field, a sequence of characters. *)

TopN == 10

\* The columns of the file.
Colunas ==
    {"Modelo_Unico", "Modelo_Base", "Processador", "Cores_Maximos",
     "Frequencia_GHz", "rPerf_Total"}

\* The columns data_preparation reads, lines 16-32: a missing one raises
\* KeyError inside the try.  Modelo_Base is not among them.
ColunasCarga == Colunas \ {"Modelo_Base"}

\* The value data_preparation returns for both tables when it fails, line 40.
None == <<[none |-> TRUE]>>

Digits == <<"0", "1", "2", "3", "4", "5", "6", "7", "8", "9">>
IsDigit(c) == \E i \in 1..10 : Digits[i] = c
DigitVal(c) == (CHOOSE i \in 1..10 : Digits[i] = c) - 1

\* str.replace('c', ''): every "c" of the text is removed.
StrReplaceC(s) == SelectSeq(s, LAMBDA c : c # "c")

RECURSIVE DecimalValue(_)
DecimalValue(s) ==
    IF s = <<>> THEN 0
    ELSE 10 * DecimalValue(SubSeq(s, 1, Len(s) - 1)) + DigitVal(s[Len(s)])

\* A float64 cell: NaN, or an integer value.
NaN == [nan |-> TRUE, val |-> 0]
Num(n) == [nan |-> FALSE, val |-> n]

\* pd.to_numeric(..., errors='coerce') on an integer text: the number, or NaN
\* for a text that is no number.
ToNumeric(s) ==
    LET neg  == s # <<>> /\ s[1] = "-"
        body == IF neg THEN Tail(s) ELSE s
    IN  IF body # <<>> /\ \A i \in 1..Len(body) : IsDigit(body[i])
        THEN Num((IF neg THEN -1 ELSE 1) * DecimalValue(body))
        ELSE NaN

\* df['Cores_Maximos'] after lines 16-18.
CoresNumeric(row) == ToNumeric(StrReplaceC(row.Cores_Maximos))

\* dropna(subset=['Cores_Maximos']): the rows kept.
DropNa(rows) == SelectSeq(rows, LAMBDA row : ~CoresNumeric(row).nan)

\* astype(int), line 20.
CoresInt(row) == CoresNumeric(row).val

\* rPerf_Total / Cores_Maximos; pandas gives inf for a division by zero.
Inf == <<1, 0>>
PerCore(total, cores) == IF cores = 0 THEN Inf ELSE Rat(total, cores)

\* One row of df: the index is Modelo_Unico (set_index).
Entry(row) ==
    [index          |-> row.Modelo_Unico,
     Modelo_Base    |-> row.Modelo_Base,
     Cores_Maximos  |-> CoresInt(row),
     rPerf_Total    |-> row.rPerf_Total,
     rPerf_por_Core |-> PerCore(row.rPerf_Total, CoresInt(row)),
     Processador    |-> row.Processador]

RECURSIVE MapEntry(_)
MapEntry(rows) ==
    IF rows = <<>> THEN <<>> ELSE <<Entry(Head(rows))>> \o MapEntry(Tail(rows))

Prepared(rows) == MapEntry(DropNa(rows))

IsAlvo(e) == e.Processador \in {"p10", "p11"}
FilterAlvo(tab) == SelectSeq(tab, IsAlvo)

----------------------------------------------------------------------------
(* rank_cenarios                                                           *)

Range(seq) == { seq[i] : i \in 1..Len(seq) }

\* Faulty variant: an odd count is rounded down to the even integer below.
ArredondaPar_ParaBaixo(c) == IF c % 2 # 0 THEN c - 1 ELSE c

\* Lines 190-194: the next even integer when the rounded count is odd.
ArredondaPar(c) == IF c % 2 # 0 THEN c + 1 ELSE c

UtilMin == <<3, 5>>

\* Faulty variant: the ceiling test of line 198 is missing.
Rejeitado_SemTeto(cores, cores_maximos) ==
    RLt(Rat(cores, cores_maximos), UtilMin)

\* Faulty variant: the utilization test of line 198 is missing.
Rejeitado_SemUtilizacao(cores, cores_maximos) ==
    cores > cores_maximos

\* Line 198: the feasibility filter.
Rejeitado(cores, cores_maximos) ==
    \/ RLt(Rat(cores, cores_maximos), UtilMin)
    \/ cores > cores_maximos

\* A row on which the loop body raises: a division by zero (no cores, or no
\* performance per core), or math.ceil of an infinite or undefined number.
Levanta(e) == e.Cores_Maximos = 0 \/ e.rPerf_por_Core[1] = 0 \/ e.rPerf_por_Core[2] = 0

\* Lines 181-183.
NumServidores(e, R) ==
    RCeil(RDiv(RDiv(R, e.rPerf_por_Core), RInt(e.Cores_Maximos)))

\* Lines 188-194.
CoresAtivos(e, R) ==
    ArredondaPar(RCeil(RDiv(RDiv(R, e.rPerf_por_Core), RInt(NumServidores(e, R)))))

\* Lines 185-199: whether the row yields a scenario.
Emite(e, R) ==
    /\ NumServidores(e, R) # 0
    /\ ~Rejeitado(CoresAtivos(e, R), e.Cores_Maximos)

\* Lines 201-211.
Cenario(e, R) ==
    LET n     == NumServidores(e, R)
        c     == CoresAtivos(e, R)
        total == RMul(RInt(n * c), e.rPerf_por_Core)
    IN  [modelo_unico       |-> e.index,
         modelo_base        |-> e.Modelo_Base,
         servidores         |-> n,
         cores_por_servidor |-> c,
         rperf_novo         |-> total,
         utilizacao_cores   |-> Rat(c, e.Cores_Maximos),
         excedente_rperf    |-> RSub(total, R)]

RECURSIVE GeraCenarios(_, _)
\* Lines 174-211: the loop over df_alvo.iterrows().
GeraCenarios(alvo, R) ==
    IF alvo = <<>> THEN <<>>
    ELSE (IF Emite(Head(alvo), R) THEN <<Cenario(Head(alvo), R)>> ELSE <<>>)
         \o GeraCenarios(Tail(alvo), R)

\* Faulty variant: the tie-break on the surplus is missing.
Vence_SoServidores(cenario, campeao) ==
    cenario.servidores < campeao.servidores

\* Lines 218-220: the scenario replaces the family's current champion.
Vence(cenario, campeao) ==
    \/ cenario.servidores < campeao.servidores
    \/ /\ cenario.servidores = campeao.servidores
       /\ RLt(cenario.excedente_rperf, campeao.excedente_rperf)

\* Faulty variant: every scenario is kept, whatever its family.
Atualiza_SemFamilia(melhores, cenario) ==
    Append(melhores, cenario)

\* melhores_por_modelo[modelo_base] = cenario on a dictionary kept as the
\* sequence of its values in insertion order.
Atualiza(melhores, cenario) ==
    IF \E i \in 1..Len(melhores) : melhores[i].modelo_base = cenario.modelo_base
    THEN [i \in 1..Len(melhores) |->
            IF melhores[i].modelo_base = cenario.modelo_base
               /\ Vence(cenario, melhores[i])
            THEN cenario ELSE melhores[i]]
    ELSE Append(melhores, cenario)

RECURSIVE MelhoresPorModelo(_, _)
\* Lines 214-221.
MelhoresPorModelo(cenarios, melhores) ==
    IF cenarios = <<>> THEN melhores
    ELSE MelhoresPorModelo(Tail(cenarios), Atualiza(melhores, Head(cenarios)))

\* Faulty variant: the list is sorted by the server count alone.
ChaveMenor_SoServidores(a, b) ==
    a.servidores < b.servidores

\* The sort key (servidores, excedente_rperf) of line 225: a strictly before b.
ChaveMenor(a, b) ==
    \/ a.servidores < b.servidores
    \/ a.servidores = b.servidores /\ RLt(a.excedente_rperf, b.excedente_rperf)

\* x put into a sorted list after every element that is not greater (stable).
Insere(sorted, x) ==
    LET k == Cardinality({i \in 1..Len(sorted) : ~ChaveMenor(x, sorted[i])})
    IN  SubSeq(sorted, 1, k) \o <<x>> \o SubSeq(sorted, k + 1, Len(sorted))

RECURSIVE Sorted(_, _)
\* sorted(lista_de_campeoes, key=...), lines 224-226.
Sorted(lista, acc) ==
    IF lista = <<>> THEN acc ELSE Sorted(Tail(lista), Insere(acc, Head(lista)))

\* Line 228: cenarios_finais_ordenados[:10].
Top(lista) == SubSeq(lista, 1, IF Len(lista) < TopN THEN Len(lista) ELSE TopN)

\* Line 177 raises KeyError on the first row of a table with no Modelo_Base
\* column.
SemFamilia(alvo) == alvo # <<>> /\ "Modelo_Base" \notin colunas

\* The loop raises on some row: rank_cenarios returns nothing.
RankLevanta(alvo) == \E i \in 1..Len(alvo) : Levanta(alvo[i])

Campeoes(alvo, R) == MelhoresPorModelo(GeraCenarios(alvo, R), <<>>)

RankCenarios(alvo, R) == Top(Sorted(Campeoes(alvo, R), <<>>))

----------------------------------------------------------------------------
(* client_ambient and rperf_calc.  The inventory dictionary is the         *)
(* sequence of its items [modelo, cores, servidores, utilizacao] in        *)
(* insertion order, one item per key.                                      *)

HasKey(inv, modelo) == \E i \in 1..Len(inv) : inv[i].modelo = modelo

\* The text typed at a prompt with a default: <<>> for Enter, <<n>> for n.
\* Lines 89-94: the peak utilization, a percentage, 100 by default.
Utilizacao(texto) == IF texto = <<>> THEN RInt(1) ELSE Rat(texto[1], 100)

\* Line 97: the number of servers, 1 by default.
Servidores(texto) == IF texto = <<>> THEN 1 ELSE texto[1]

\* Lines 99-106: a model already in the inventory gets the servers added and
\* keeps its cores and utilization.
AdicionaAoInventario(inv, linha) ==
    IF HasKey(inv, linha.modelo)
    THEN [i \in 1..Len(inv) |->
            IF inv[i].modelo = linha.modelo
            THEN [inv[i] EXCEPT !.servidores = @ + linha.servidores]
            ELSE inv[i]]
    ELSE Append(inv, linha)

\* df.loc[modelo, 'rPerf_por_Core'] for a model of the index.
InIndex(tab, modelo) == \E i \in 1..Len(tab) : tab[i].index = modelo
Loc(tab, modelo) == (CHOOSE e \in { tab[i] : i \in 1..Len(tab) } : e.index = modelo).rPerf_por_Core

\* Lines 134-139.
RperfTotalModelo(tab, dados) ==
    RMul(RMul(RInt(dados.servidores * dados.cores), Loc(tab, dados.modelo)),
         dados.utilizacao)

RECURSIVE RperfBase(_, _)
\* Lines 130-140: the loop over inventario_client.items().
RperfBase(tab, inv) ==
    IF inv = <<>> THEN RInt(0)
    ELSE RAdd(RperfBase(tab, SubSeq(inv, 1, Len(inv) - 1)),
              RperfTotalModelo(tab, inv[Len(inv)]))

\* a ** k for an integer k and a # 0 when k < 0.
RPowZ(a, k) == IF k >= 0 THEN RPow(a, k) ELSE RDiv(RInt(1), RPow(a, -k))

\* Faulty variant: simple instead of compound growth.
Cresce_Linear(base, taxa, anos) ==
    RMul(base, RAdd(RInt(1), RMul(taxa, RInt(anos))))

\* Line 157: rperf_base * (1 + taxa_anual) ** anos.
Cresce(base, taxa, anos) == RMul(base, RPowZ(RAdd(RInt(1), taxa), anos))

\* 0.0 ** anos for anos < 0 raises ZeroDivisionError, which line 159 does not
\* catch.
CresceLevanta(taxa, anos) == RIsZero(RAdd(RInt(1), taxa)) /\ anos < 0

----------------------------------------------------------------------------
(* Inputs.                                                                 *)

MaxRows == 3            \* rows of a table drawn from RowPool
MaxExtraFamilies == 1   \* families beyond TopN in the wide tables
MaxReq == 40            \* |required performance| handed to rank_cenarios directly

Chars(n) == IF n < 10 THEN <<Digits[n + 1]>>
            ELSE <<Digits[(n \div 10) + 1], Digits[(n % 10) + 1]>>

Row(unico, base, cores, total, proc) ==
    [Modelo_Unico |-> unico, Modelo_Base |-> base, Cores_Maximos |-> cores,
     rPerf_Total |-> total, Processador |-> proc]

RowPool ==
    { Row("X-20", "X", <<"2", "0", "c">>, 20, "p10"),
      Row("X-40", "X", <<"4", "0">>, 40, "p10"),
      Row("Y-24", "Y", <<"2", "4", "c">>, 36, "p11"),
      Row("Y-15", "Y", <<"1", "5">>, 30, "p11"),
      Row("Z-08", "Z", <<"N", "/", "A">>, 16, "p10"),
      Row("S-10", "S", <<"1", "0", "c">>, 5, "p9") }

\* The tables of at most MaxRows distinct rows of RowPool, in every order.
SmallCsvs ==
    UNION { { t \in [1..n -> RowPool] : \A i, j \in 1..n : i # j => t[i] # t[j] }
            : n \in 0..MaxRows }

\* One row per family: family i has 16, 18, 20 or 22 cores and 1 or 3/2 rPerf
\* per core.
WideRow(i) ==
    LET cores == 16 + 2 * (i % 4)
    IN  Row("W-" \o ToString(i), "F" \o ToString(i),
            Chars(cores) \o (IF i % 3 = 0 THEN <<"c">> ELSE <<>>),
            IF i % 2 = 1 THEN (cores * 3) \div 2 ELSE cores,
            IF i % 2 = 0 THEN "p10" ELSE "p11")

WideCsvs ==
    UNION { { [i \in 1..k |-> WideRow(i)], [i \in 1..k |-> WideRow(k + 1 - i)] }
            : k \in (TopN - 1)..(TopN + MaxExtraFamilies) }

ReqSet == { RInt(k) : k \in (-MaxReq)..MaxReq }

\* Rows whose cores field is a number, but not a positive one.
DegenerateRows ==
    { Row("D-00", "D", <<"0", "c">>, 12, "p10"),
      Row("N-04", "N", <<"-", "4", "c">>, 8, "p11") }

\* The tables of at most MaxRows distinct rows, some of them degenerate.
PrepCsvs ==
    LET pool == DegenerateRows \cup
                { r \in RowPool : r.Modelo_Unico \in {"X-20", "Z-08", "S-10"} }
    IN  UNION { { t \in [1..n -> pool] : \A i, j \in 1..n : i # j => t[i] # t[j] }
                : n \in 0..MaxRows }

PrepReqs == {RInt(8), RInt(15)}

MaxLines == 2           \* inventory lines of one request
MaxRequests == 1        \* requests a serving host answers after its first

\* The table the hosts load.
HostCsvs ==
    { << Row("S-10", "S", <<"1", "0", "c">>, 5, "p9"),
         Row("X-20", "X", <<"2", "0", "c">>, 20, "p10"),
         Row("Z-08", "Z", <<"N", "/", "A">>, 16, "p10"),
         Row("X-40", "X", <<"4", "0">>, 40, "p10"),
         Row("Y-24", "Y", <<"2", "4", "c">>, 36, "p11"),
         Row("V-32", "V", <<"3", "2">>, 25, "p10"),
         Row("V-26", "V", <<"2", "6", "c">>, 33, "p10") >> }

\* The headers of the file the hosts load: complete, or lacking one column.
Cabecalhos ==
    {Colunas} \cup
    { Colunas \ {c} : c \in {"Cores_Maximos", "Modelo_Base", "Modelo_Unico"} }

\* What the user of the interactive hosts types.
ModelosIn == {"S-10", "X-20"}
CoresIn == {4, 8}
UtilTexts == {<<>>, <<50>>}
SrvTexts == {<<>>, <<3>>}
TaxasIn == {-100, -50, 0, 100}
AnosIn == {-1, 0, 2}

----------------------------------------------------------------------------
(* State and operations.                                                   *)

NoProjecao == [usa |-> FALSE, taxa |-> RInt(0), anos |-> 0]

InitCommon ==
    /\ pc = "load"
    /\ df = <<>>
    /\ df_alvo = <<>>
    /\ linhas = <<>>
    /\ inventario_client = <<>>
    /\ rperf_base = RInt(0)
    /\ projecao = NoProjecao
    /\ cenarios_validos = <<>>
    /\ melhores_por_modelo = <<>>
    /\ top_cenarios = <<>>
    /\ outcome = "none"
    /\ atendidas = 0
    /\ detail = {}

\* A caller of the library that ranks for a required performance of its own.
InitRank ==
    /\ host = "lib"
    /\ csv \in SmallCsvs \cup WideCsvs
    /\ colunas = Colunas
    /\ rperf_final_requerido \in ReqSet
    /\ InitCommon

\* logic_sizing.data_preparation, lines 5-40.
data_preparation ==
    /\ host \in {"lib", "cli", "agent"}
    /\ pc = "load"
    /\ IF ColunasCarga \subseteq colunas
       THEN /\ df' = Prepared(csv)
            /\ df_alvo' = FilterAlvo(Prepared(csv))
            /\ pc' = CASE host = "lib" -> "rank"
                        [] host = "cli" -> "collect"
                        [] host = "agent" -> "ready"
            /\ outcome' = "ok"
       ELSE \* lines 38-40; the agent goes on to serve (agente-llama.py line 28)
            /\ df' = None
            /\ df_alvo' = None
            /\ pc' = IF host = "agent" THEN "ready" ELSE "done"
            /\ outcome' = "erro csv"
    /\ UNCHANGED <<host, csv, colunas, atendidas, detail, linhas, inventario_client,
                   rperf_base,
                   rperf_final_requerido, projecao, cenarios_validos,
                   melhores_por_modelo, top_cenarios>>

\* logic_sizing.rank_cenarios, lines 167-239.
rank_cenarios ==
    /\ host \in {"lib", "cli"}
    /\ pc = "rank"
    /\ pc' = "done"
    /\ IF SemFamilia(df_alvo) \/ RankLevanta(df_alvo)
       THEN /\ outcome' = "raise"
            /\ UNCHANGED <<cenarios_validos, melhores_por_modelo, top_cenarios>>
       ELSE /\ outcome' = "ok"
            /\ cenarios_validos' = GeraCenarios(df_alvo, rperf_final_requerido)
            /\ melhores_por_modelo' = Campeoes(df_alvo, rperf_final_requerido)
            /\ top_cenarios' = RankCenarios(df_alvo, rperf_final_requerido)
    /\ UNCHANGED <<host, csv, colunas, atendidas, detail, df, df_alvo, linhas,
                   inventario_client, rperf_base,
                   rperf_final_requerido, projecao>>

NextRank == data_preparation \/ rank_cenarios

SpecRank == InitRank /\ [][NextRank]_vars

\* The same caller on a file that may hold degenerate rows.
InitPrep ==
    /\ host = "lib"
    /\ csv \in PrepCsvs
    /\ colunas = Colunas
    /\ rperf_final_requerido \in PrepReqs
    /\ InitCommon

SpecPrep == InitPrep /\ [][NextRank]_vars

----------------------------------------------------------------------------
(* The interactive hosts: the functions of logic_sizing called in sequence *)
(* ("cli"), and run_sizing_tool ("gemini"), which holds the same code in   *)
(* one function.                                                           *)

\* One pass of the loop that ends by adding a line (lines 53-114).  A search
\* with no match, an invalid choice or an invalid number changes nothing.
ColetaLinha(h) ==
    /\ host = h
    /\ pc = "collect"
    /\ Len(linhas) < MaxLines
    /\ \E m \in ModelosIn, c \in CoresIn, u \in UtilTexts, n \in SrvTexts :
          /\ InIndex(df, m)
          /\ LET linha == [modelo |-> m, cores |-> c, servidores |-> Servidores(n),
                           utilizacao |-> Utilizacao(u)]
             IN  /\ linhas' = Append(linhas, linha)
                 /\ inventario_client' = AdicionaAoInventario(inventario_client, linha)
    /\ UNCHANGED <<host, pc, csv, colunas, atendidas, detail, df, df_alvo, rperf_base,
                   rperf_final_requerido,
                   projecao, cenarios_validos, melhores_por_modelo, top_cenarios,
                   outcome>>

\* Enter at the search prompt (lines 55-56, 116-120).
FimColeta(h) ==
    /\ host = h
    /\ pc = "collect"
    /\ IF inventario_client = <<>>
       THEN pc' = "done" /\ outcome' = "sem inventario"
       ELSE pc' = "calc" /\ outcome' = "ok"
    /\ UNCHANGED <<host, csv, colunas, atendidas, detail, df, df_alvo, linhas,
                   inventario_client, rperf_base,
                   rperf_final_requerido, projecao, cenarios_validos,
                   melhores_por_modelo, top_cenarios>>

\* Lines 130-163.  Any answer but "s", and a rate or a number of years that
\* is no number, leave the base.
CalculaRperf(h) ==
    /\ host = h
    /\ pc = "calc"
    /\ rperf_base' = RperfBase(df, inventario_client)
    /\ \/ /\ projecao' = NoProjecao
          /\ rperf_final_requerido' = rperf_base'
          /\ pc' = "rank"
          /\ outcome' = "ok"
       \/ \E t \in TaxasIn, a \in AnosIn :
             /\ projecao' = [usa |-> TRUE, taxa |-> Rat(t, 100), anos |-> a]
             /\ IF CresceLevanta(Rat(t, 100), a)
                THEN /\ pc' = "done"
                     /\ outcome' = "raise"
                     /\ UNCHANGED rperf_final_requerido
                ELSE /\ pc' = "rank"
                     /\ outcome' = "ok"
                     /\ rperf_final_requerido' = Cresce(rperf_base', Rat(t, 100), a)
    /\ UNCHANGED <<host, csv, colunas, atendidas, detail, df, df_alvo, linhas,
                   inventario_client,
                   cenarios_validos, melhores_por_modelo, top_cenarios>>

\* logic_sizing.client_ambient, lines 44-120.
client_ambient_linha == ColetaLinha("cli")
client_ambient_fim == FimColeta("cli")

\* logic_sizing.rperf_calc, lines 124-163.
rperf_calc == CalculaRperf("cli")

\* run_sizing_tool, lines 9-24.
tool_carrega ==
    /\ host = "gemini"
    /\ pc = "load"
    /\ IF ColunasCarga \subseteq colunas
       THEN /\ df' = Prepared(csv)
            /\ df_alvo' = FilterAlvo(Prepared(csv))
            /\ pc' = "collect"
            /\ outcome' = "ok"
       ELSE \* lines 22-24: the function returns
            /\ UNCHANGED <<df, df_alvo>>
            /\ pc' = "done"
            /\ outcome' = "erro csv"
    /\ UNCHANGED <<host, csv, colunas, atendidas, detail, linhas, inventario_client,
                   rperf_base,
                   rperf_final_requerido, projecao, cenarios_validos,
                   melhores_por_modelo, top_cenarios>>

\* run_sizing_tool, lines 27-66.
tool_coleta_linha == ColetaLinha("gemini")
tool_coleta_fim == FimColeta("gemini")

\* run_sizing_tool, lines 69-89.
tool_rperf == CalculaRperf("gemini")

\* run_sizing_tool, lines 92-148.
tool_rank ==
    /\ host = "gemini"
    /\ pc = "rank"
    /\ pc' = "done"
    /\ IF SemFamilia(df_alvo) \/ RankLevanta(df_alvo)
       THEN /\ outcome' = "raise"
            /\ UNCHANGED <<cenarios_validos, melhores_por_modelo, top_cenarios>>
       ELSE /\ outcome' = "ok"
            /\ cenarios_validos' = GeraCenarios(df_alvo, rperf_final_requerido)
            /\ melhores_por_modelo' = Campeoes(df_alvo, rperf_final_requerido)
            /\ top_cenarios' = RankCenarios(df_alvo, rperf_final_requerido)
    /\ UNCHANGED <<host, csv, colunas, atendidas, detail, df, df_alvo, linhas,
                   inventario_client, rperf_base,
                   rperf_final_requerido, projecao>>

----------------------------------------------------------------------------
(* The HTTP endpoint, src/api.py.                                          *)

\* One row of the endpoint's df: the index is the row's number in the file
\* (no set_index), and Modelo_Unico stays a column.  The number is held as its
\* decimal text, which is equal to no model name, as 3 == "X-20" is False.
ApiEntry(row, label) ==
    [index          |-> ToString(label),
     Modelo_Unico   |-> row.Modelo_Unico,
     Modelo_Base    |-> row.Modelo_Base,
     Cores_Maximos  |-> CoresInt(row),
     rPerf_Total    |-> row.rPerf_Total,
     rPerf_por_Core |-> PerCore(row.rPerf_Total, CoresInt(row)),
     Processador    |-> row.Processador]

RECURSIVE ApiPrepared(_, _)
\* api.py lines 38-43 on the rows from number `label` on.
ApiPrepared(rows, label) ==
    IF rows = <<>> THEN <<>>
    ELSE (IF CoresNumeric(Head(rows)).nan THEN <<>>
          ELSE <<ApiEntry(Head(rows), label)>>)
         \o ApiPrepared(Tail(rows), label + 1)

\* Series.str.fullmatch(modelo, case=False) for a plain name: equal up to case.
CaseFold(name) ==
    CASE name = "x" -> "X"
      [] name = "s" -> "S"
      [] OTHER -> name

\* api.py lines 64-67: the rows of the family with that many cores.
Matches(tab, machine) ==
    SelectSeq(tab, LAMBDA e : /\ CaseFold(e.Modelo_Base) = CaseFold(machine.modelo)
                              /\ e.Cores_Maximos = machine.cores)

\* api.py lines 58-70: the machine the 404 is raised for, the first of the
\* request with no matching row.
NotFound(tab, machines) ==
    machines[CHOOSE i \in 1..Len(machines) :
                /\ Matches(tab, machines[i]) = <<>>
                /\ \A j \in 1..(i - 1) : Matches(tab, machines[j]) # <<>>]

\* api.py lines 72-74.
ApiRperfModelo(tab, machine) ==
    RMul(RInt(machine.servidores * machine.cores),
         Matches(tab, machine)[1].rPerf_por_Core)

RECURSIVE ApiRperfBase(_, _)
\* api.py lines 57-75.
ApiRperfBase(tab, machines) ==
    IF machines = <<>> THEN RInt(0)
    ELSE RAdd(ApiRperfBase(tab, SubSeq(machines, 1, Len(machines) - 1)),
              ApiRperfModelo(tab, machines[Len(machines)]))

\* api.py lines 78-81: taxa is a percentage.
ApiCresce(base, proj) ==
    IF proj.usa /\ proj.anos > 0 /\ RLt(RInt(0), proj.taxa)
    THEN RMul(base, RPow(RAdd(RInt(1), RDiv(proj.taxa, RInt(100))), proj.anos))
    ELSE base

\* round(x, 2): the nearest multiple of 1/100, a tie going to the even one.
Round2(x) ==
    LET q    == RMul(x, RInt(100))
        lo   == q[1] \div q[2]
        rest == RSub(q, RInt(lo))
    IN  IF RLt(<<1, 2>>, rest) THEN Rat(lo + 1, 100)
        ELSE IF RLt(rest, <<1, 2>>) THEN Rat(lo, 100)
        ELSE IF lo % 2 = 0 THEN Rat(lo, 100) ELSE Rat(lo + 1, 100)

\* api.py lines 96-103.
ApiCenario(e, R) ==
    LET n     == NumServidores(e, R)
        c     == CoresAtivos(e, R)
        total == RMul(RInt(n * c), e.rPerf_por_Core)
    IN  [modelo_unico             |-> e.index,
         modelo_base              |-> e.Modelo_Base,
         servidores               |-> n,
         cores_por_servidor       |-> c,
         rperf_novo               |-> Round2(total),
         utilizacao_cores_percent |-> Round2(RMul(Rat(c, e.Cores_Maximos), RInt(100))),
         excedente_rperf          |-> Round2(RSub(total, R))]

RECURSIVE ApiGeraCenarios(_, _)
\* api.py lines 83-103: the same loop as rank_cenarios.
ApiGeraCenarios(alvo, R) ==
    IF alvo = <<>> THEN <<>>
    ELSE (IF Emite(Head(alvo), R) THEN <<ApiCenario(Head(alvo), R)>> ELSE <<>>)
         \o ApiGeraCenarios(Tail(alvo), R)

\* The columns api.py lines 39-44 read: there is no set_index.
ApiColunasCarga == ColunasCarga \ {"Modelo_Unico"}

\* api.py lines 37-49, run when the module is imported.
api_carrega ==
    /\ host = "api"
    /\ pc = "load"
    /\ pc' = "ready"
    /\ IF ApiColunasCarga \subseteq colunas
       THEN /\ df' = ApiPrepared(csv, 0)
            /\ df_alvo' = FilterAlvo(ApiPrepared(csv, 0))
            /\ outcome' = "ok"
       ELSE \* lines 46-49: two empty tables
            /\ df' = <<>>
            /\ df_alvo' = <<>>
            /\ outcome' = "erro csv"
    /\ UNCHANGED <<host, csv, colunas, atendidas, detail, linhas, inventario_client,
                   rperf_base,
                   rperf_final_requerido, projecao, cenarios_validos,
                   melhores_por_modelo, top_cenarios>>

\* The bodies POST /sizing/ receives.
ApiMachines ==
    { [modelo |-> m, cores |-> c, servidores |-> q, utilizacao |-> RInt(1)] :
        m \in {"S", "x"}, c \in {10, 20}, q \in {1, 3} }

ApiProjecoes ==
    {NoProjecao} \cup
    { [usa |-> TRUE, taxa |-> RInt(t), anos |-> a] : t \in TaxasIn, a \in AnosIn }

Requests(machines) ==
    UNION { [1..n -> machines] : n \in 0..MaxLines }

\* The Field(gt=0) and Field(ge=0) constraints of lines 14-19.
ApiValid(machines, proj) ==
    /\ \A i \in 1..Len(machines) : machines[i].cores > 0 /\ machines[i].servidores > 0
    /\ RLe(RInt(0), proj.taxa)
    /\ proj.anos >= 0

\* calcular_sizing, api.py lines 52-121, with the validation of the request
\* model before it.
calcular_sizing ==
    /\ host = "api"
    /\ pc = "ready"
    /\ pc' = "done"
    /\ \E machines \in Requests(ApiMachines), proj \in ApiProjecoes :
          /\ linhas' = machines
          /\ projecao' = [proj EXCEPT !.taxa = RDiv(@, RInt(100))]
          /\ IF ~ApiValid(machines, proj)
             THEN /\ outcome' = "422"
                  /\ detail' = {}
                  /\ UNCHANGED <<rperf_base, rperf_final_requerido, cenarios_validos,
                                 melhores_por_modelo, top_cenarios>>
             ELSE IF df = <<>>
             THEN /\ outcome' = "500"
                  /\ detail' = {}
                  /\ UNCHANGED <<rperf_base, rperf_final_requerido, cenarios_validos,
                                 melhores_por_modelo, top_cenarios>>
             ELSE IF machines # <<>> /\ "Modelo_Base" \notin colunas
             THEN \* line 65 raises KeyError: the server answers 500
                  /\ outcome' = "raise"
                  /\ detail' = {}
                  /\ UNCHANGED <<rperf_base, rperf_final_requerido, cenarios_validos,
                                 melhores_por_modelo, top_cenarios>>
             ELSE IF \E i \in 1..Len(machines) : Matches(df, machines[i]) = <<>>
             THEN /\ outcome' = "404"
                  /\ detail' = {NotFound(df, machines).modelo}
                  /\ UNCHANGED <<rperf_base, rperf_final_requerido, cenarios_validos,
                                 melhores_por_modelo, top_cenarios>>
             ELSE LET base  == ApiRperfBase(df, machines)
                      final == ApiCresce(base, proj)
                  IN  /\ rperf_base' = base
                      /\ rperf_final_requerido' = final
                      /\ detail' = {}
                      /\ IF SemFamilia(df_alvo) \/ RankLevanta(df_alvo)
                         THEN /\ outcome' = "raise"
                              /\ UNCHANGED <<cenarios_validos, melhores_por_modelo,
                                             top_cenarios>>
                         ELSE /\ outcome' = "ok"
                              /\ cenarios_validos' = ApiGeraCenarios(df_alvo, final)
                              /\ melhores_por_modelo' =
                                    MelhoresPorModelo(ApiGeraCenarios(df_alvo, final), <<>>)
                              /\ top_cenarios' =
                                    Top(Sorted(MelhoresPorModelo(
                                            ApiGeraCenarios(df_alvo, final), <<>>), <<>>))
    /\ UNCHANGED <<host, csv, colunas, atendidas, df, df_alvo, inventario_client>>

----------------------------------------------------------------------------
(* The agent tool, src/Agente/Llama/agente-llama.py.  The function it      *)
(* calls, calcular_e_ranquear_cenarios_completos of the logic_sizing       *)
(* module beside it, is not among the sources: it is modelled from the     *)
(* specification's base_requirement, apply_growth and rank_scenarios.      *)

\* d[key] = value on a dictionary kept in insertion order.
DictSet(inv, item) ==
    IF HasKey(inv, item.modelo)
    THEN [i \in 1..Len(inv) |-> IF inv[i].modelo = item.modelo THEN item ELSE inv[i]]
    ELSE Append(inv, item)

RECURSIVE InventarioDict(_, _)
\* agente-llama.py lines 54-57: the dictionary comprehension over the list.
InventarioDict(servidores, inv) ==
    IF servidores = <<>> THEN inv
    ELSE InventarioDict(Tail(servidores), DictSet(inv, Head(servidores)))

\* base_requirement fails with UnknownModelError for a model not in the catalog.
UnknownModel(tab, inv) == \E i \in 1..Len(inv) : ~InIndex(tab, inv[i].modelo)

\* apply_growth rejects a negative rate or number of years.
InvalidGrowth(taxa, anos) == RLt(taxa, RInt(0)) \/ anos < 0

\* apply_growth: base x (1 + rate) ^ years.
ApplyGrowth(base, taxa, anos) == RMul(base, RPow(RAdd(RInt(1), taxa), anos))

AgentServidores ==
    { [modelo |-> m, cores |-> c, servidores |-> 3, utilizacao |-> u] :
        m \in {"S-10", "Q-99"}, c \in CoresIn, u \in {<<1, 2>>, <<1, 1>>} }

\* calcular_cenarios_de_sizing, agente-llama.py lines 46-89.
calcular_cenarios_de_sizing ==
    /\ host = "agent"
    /\ pc = "ready"
    /\ pc' = "done"
    /\ \E servidores \in Requests(AgentServidores), t \in TaxasIn, a \in AnosIn :
          LET inv  == InventarioDict(servidores, <<>>)
              taxa == Rat(t, 100)
          IN  /\ linhas' = servidores
              /\ inventario_client' = inv
              /\ projecao' = [usa |-> TRUE, taxa |-> taxa, anos |-> a]
              /\ detail' = {}
              /\ IF \/ df = None
                    \/ UnknownModel(df, inv)
                    \/ InvalidGrowth(taxa, a)
                    \/ SemFamilia(df_alvo)
                    \/ RankLevanta(df_alvo)
                 THEN /\ outcome' = "erro interno"
                      /\ UNCHANGED <<rperf_base, rperf_final_requerido, cenarios_validos,
                                     melhores_por_modelo, top_cenarios>>
                 ELSE LET base  == RperfBase(df, inv)
                          final == ApplyGrowth(base, taxa, a)
                      IN  /\ rperf_base' = base
                          /\ rperf_final_requerido' = final
                          /\ cenarios_validos' = GeraCenarios(df_alvo, final)
                          /\ melhores_por_modelo' = Campeoes(df_alvo, final)
                          /\ top_cenarios' = RankCenarios(df_alvo, final)
                          /\ outcome' = IF RankCenarios(df_alvo, final) = <<>>
                                        THEN "sem cenarios" ELSE "ok"
    /\ UNCHANGED <<host, csv, colunas, atendidas, df, df_alvo>>

\* Faulty variant: the handler has filtered the target subset in place, and
\* the scenarios it found are gone from it.
proxima_requisicao_ConsomeAlvo ==
    /\ host \in {"api", "agent"}
    /\ pc = "done"
    /\ atendidas < MaxRequests
    /\ atendidas' = atendidas + 1
    /\ pc' = "ready"
    /\ df_alvo' = SelectSeq(df_alvo, LAMBDA e :
                       \A s \in Range(cenarios_validos) : s.modelo_unico # e.index)
    /\ linhas' = <<>>
    /\ inventario_client' = <<>>
    /\ rperf_base' = RInt(0)
    /\ rperf_final_requerido' = RInt(0)
    /\ projecao' = NoProjecao
    /\ cenarios_validos' = <<>>
    /\ melhores_por_modelo' = <<>>
    /\ top_cenarios' = <<>>
    /\ outcome' = "ok"
    /\ detail' = {}
    /\ UNCHANGED <<host, csv, colunas, df>>

\* The handler has returned: its locals are gone and the host waits for the
\* next request (api.py line 52, agente-llama.py lines 145-161).
proxima_requisicao ==
    /\ host \in {"api", "agent"}
    /\ pc = "done"
    /\ atendidas < MaxRequests
    /\ atendidas' = atendidas + 1
    /\ pc' = "ready"
    /\ linhas' = <<>>
    /\ inventario_client' = <<>>
    /\ rperf_base' = RInt(0)
    /\ rperf_final_requerido' = RInt(0)
    /\ projecao' = NoProjecao
    /\ cenarios_validos' = <<>>
    /\ melhores_por_modelo' = <<>>
    /\ top_cenarios' = <<>>
    /\ outcome' = "ok"
    /\ detail' = {}
    /\ UNCHANGED <<host, csv, colunas, df, df_alvo>>

Init ==
    /\ host \in {"cli", "gemini", "api", "agent"}
    /\ csv \in HostCsvs
    /\ colunas = Colunas
    /\ rperf_final_requerido = RInt(0)
    /\ InitCommon

\* The hosts started on a file whose header may lack a column.
InitCarga ==
    /\ host \in {"cli", "gemini", "api", "agent"}
    /\ csv \in HostCsvs
    /\ colunas \in Cabecalhos
    /\ rperf_final_requerido = RInt(0)
    /\ InitCommon

Next ==
    \/ data_preparation
    \/ client_ambient_linha
    \/ client_ambient_fim
    \/ rperf_calc
    \/ rank_cenarios
    \/ tool_carrega
    \/ tool_coleta_linha
    \/ tool_coleta_fim
    \/ tool_rperf
    \/ tool_rank
    \/ api_carrega
    \/ calcular_sizing
    \/ calcular_cenarios_de_sizing
    \/ proxima_requisicao

Spec == Init /\ [][Next]_vars

SpecCarga == InitCarga /\ [][Next]_vars

----------------------------------------------------------------------------
(* Properties of rank_cenarios, checked under SpecRank.                    *)

Ranked == pc = "done" /\ outcome = "ok"

\* The row of df_alvo a scenario was computed from.
EntryOf(s) == CHOOSE e \in Range(df_alvo) : e.index = s.modelo_unico

Emitted == Range(cenarios_validos) \cup Range(top_cenarios)

\* C1: every scenario that rank_cenarios emits has an even number of cores per
\* server, at most Cores_Maximos of its row, and a utilization
\* cores / Cores_Maximos between 0.60 and 1; a row whose even-rounded core
\* count exceeds Cores_Maximos yields no scenario.
C1_EmittedCoresWithinCeiling ==
    Ranked =>
        /\ \A s \in Emitted :
              /\ \E e \in Range(df_alvo) : e.index = s.modelo_unico
              /\ s.cores_por_servidor % 2 = 0
              /\ s.cores_por_servidor <= EntryOf(s).Cores_Maximos
              /\ s.utilizacao_cores = Rat(s.cores_por_servidor, EntryOf(s).Cores_Maximos)
              /\ RLe(Rat(60, 100), s.utilizacao_cores)
              /\ RLe(s.utilizacao_cores, RInt(1))
        /\ \A e \in Range(df_alvo) :
              (/\ NumServidores(e, rperf_final_requerido) # 0
               /\ CoresAtivos(e, rperf_final_requerido) > e.Cores_Maximos)
              => \A s \in Emitted : s.modelo_unico # e.index

\* A ranking that returned a scenario and rejected a row for its core count.
C1_Witness ==
    /\ Ranked
    /\ top_cenarios # <<>>
    /\ \E e \in Range(df_alvo) :
          /\ NumServidores(e, rperf_final_requerido) # 0
          /\ CoresAtivos(e, rperf_final_requerido) > e.Cores_Maximos

C3_ChampionIsFamilyMinimum ==
    Ranked =>
        \A m \in Range(melhores_por_modelo) \cup Range(top_cenarios) :
            /\ m \in Range(cenarios_validos)
            /\ \A s \in Range(cenarios_validos) :
                  s.modelo_base = m.modelo_base =>
                      /\ s.servidores >= m.servidores
                      /\ s.servidores = m.servidores
                            => RLe(m.excedente_rperf, s.excedente_rperf)

\* A family whose later row beat the earlier one on the surplus alone.
C3_Witness ==
    /\ Ranked
    /\ \E i, j \in 1..Len(cenarios_validos) :
          /\ i < j
          /\ cenarios_validos[i].modelo_base = cenarios_validos[j].modelo_base
          /\ cenarios_validos[i].servidores = cenarios_validos[j].servidores
          /\ RLt(cenarios_validos[j].excedente_rperf, cenarios_validos[i].excedente_rperf)
          /\ cenarios_validos[j] \in Range(top_cenarios)

FeasibleFamilies == { s.modelo_base : s \in Range(cenarios_validos) }

\* C4: the returned list holds at most one scenario per family, and exactly
\* one for each family with a feasible row when these are at most 10.
C4_OnePerFamily ==
    Ranked =>
        /\ \A i, j \in 1..Len(top_cenarios) :
              top_cenarios[i].modelo_base = top_cenarios[j].modelo_base => i = j
        /\ Cardinality(FeasibleFamilies) <= 10 =>
              \A f \in FeasibleFamilies :
                  Cardinality({ i \in 1..Len(top_cenarios) :
                                  top_cenarios[i].modelo_base = f }) = 1

\* Two families returned, one of them with two feasible rows.
C4_Witness ==
    /\ Ranked
    /\ Len(top_cenarios) = 2
    /\ Len(cenarios_validos) = 3

KeyLess(a, b) ==
    \/ a.servidores < b.servidores
    \/ a.servidores = b.servidores /\ RLt(a.excedente_rperf, b.excedente_rperf)

\* C5: the returned list is the first min(10, k) of the k champions in
\* ascending order of (servidores, excedente_rperf).
C5_SortedAndTruncated ==
    Ranked =>
        /\ Len(top_cenarios) <= 10
        /\ Len(top_cenarios) =
              (IF Len(melhores_por_modelo) < 10 THEN Len(melhores_por_modelo) ELSE 10)
        /\ Range(top_cenarios) \subseteq Range(melhores_por_modelo)
        /\ \A i \in 1..(Len(top_cenarios) - 1) :
              ~KeyLess(top_cenarios[i + 1], top_cenarios[i])
        /\ \A m \in Range(melhores_por_modelo) \ Range(top_cenarios) :
              \A t \in Range(top_cenarios) : ~KeyLess(m, t)

\* A ranking that cut the list and ordered two champions by their surplus.
C5_Witness ==
    /\ Ranked
    /\ Len(melhores_por_modelo) > 10
    /\ \E i \in 1..(Len(top_cenarios) - 1) :
          /\ top_cenarios[i].servidores = top_cenarios[i + 1].servidores
          /\ RLt(top_cenarios[i].excedente_rperf, top_cenarios[i + 1].excedente_rperf)

\* C6: a required performance of 0 or below yields the empty list and no
\* error, and no emitted scenario has a server count of 0 or below.
C6_NonPositiveRequirementYieldsNothing ==
    pc = "done" =>
        /\ RLe(rperf_final_requerido, RInt(0)) /\ ~RankLevanta(df_alvo)
              => outcome = "ok" /\ top_cenarios = <<>>
        /\ \A s \in Emitted : s.servidores > 0

\* C7: family X with configurations A (20 cores) and B (40 cores), 1 rPerf per
\* core each, and a required performance of 15: the result is A alone, 1
\* server with 16 cores, 16 rPerf, 1 of surplus.
C7_Catalog ==
    /\ Len(df_alvo) = 2
    /\ \E a, b \in Range(df_alvo) :
          /\ a.Modelo_Base = "X" /\ a.Cores_Maximos = 20 /\ a.rPerf_por_Core = RInt(1)
          /\ b.Modelo_Base = "X" /\ b.Cores_Maximos = 40 /\ b.rPerf_por_Core = RInt(1)

C7_WorkedExample ==
    (pc = "done" /\ C7_Catalog /\ rperf_final_requerido = RInt(15)) =>
        /\ outcome = "ok"
        /\ Len(top_cenarios) = 1
        /\ EntryOf(top_cenarios[1]).Cores_Maximos = 20
        /\ top_cenarios[1].servidores = 1
        /\ top_cenarios[1].cores_por_servidor = 16
        /\ top_cenarios[1].rperf_novo = RInt(16)
        /\ top_cenarios[1].excedente_rperf = RInt(1)

\* The worked example ranked with configuration B visited first.
C7_Witness ==
    /\ pc = "done"
    /\ C7_Catalog
    /\ df_alvo[1].Cores_Maximos = 40
    /\ rperf_final_requerido = RInt(15)

----------------------------------------------------------------------------
(* Properties of the hosts, checked under Spec.                            *)

\* The contribution of one inventory line.
LineRperf(tab, linha) ==
    RMul(RMul(RInt(linha.servidores * linha.cores), Loc(tab, linha.modelo)),
         linha.utilizacao)

RECURSIVE SumOfLines(_, _)
SumOfLines(tab, lines) ==
    IF lines = <<>> THEN RInt(0)
    ELSE RAdd(LineRperf(tab, Head(lines)), SumOfLines(tab, Tail(lines)))

\* The host has computed rperf_base from its inventory dictionary.
BaseComputed ==
    \/ host \in {"cli", "gemini"} /\ pc \in {"rank", "done"} /\ outcome # "sem inventario"
    \/ host = "agent" /\ pc = "done" /\ outcome \in {"ok", "sem cenarios"}

\* C8: the required performance of an inventory is the sum over all its lines
\* of servers x cores x rPerf_por_Core x utilization, whatever their order and
\* whether or not lines of one model were merged, for the inventory built by
\* client_ambient and for the dictionary built by the agent tool.
C8_BaseIsSumOverAllLines ==
    BaseComputed => rperf_base = SumOfLines(df, linhas)

NegativeGrowth == projecao.usa /\ (RLt(projecao.taxa, RInt(0)) \/ projecao.anos < 0)

\* A required performance was produced and handed to the ranking.
RequirementProduced ==
    \/ pc = "rank"
    \/ pc = "done" /\ outcome \in {"ok", "sem cenarios"}

\* C9: a negative annual rate or number of years is rejected before any
\* computation, in every host that takes growth parameters.
C9_NegativeGrowthRejected ==
    NegativeGrowth => ~RequirementProduced

RECURSIVE Compound(_, _, _)
\* base x (1 + rate) ^ years by repeated multiplication or division.
Compound(base, rate, years) ==
    IF years = 0 THEN base
    ELSE IF years > 0
    THEN RMul(Compound(base, rate, years - 1), RAdd(RInt(1), rate))
    ELSE RDiv(Compound(base, rate, years + 1), RAdd(RInt(1), rate))

\* C10: growth with a rate of 0 or with 0 years returns the base unchanged;
\* otherwise the result is base x (1 + rate) ^ years (rperf_calc,
\* run_sizing_tool and calcular_sizing).
C10_GrowthIsCompound ==
    (host \in {"cli", "gemini", "api"} /\ RequirementProduced) =>
        rperf_final_requerido =
            (IF ~projecao.usa \/ RIsZero(projecao.taxa) \/ projecao.anos = 0
             THEN rperf_base
             ELSE Compound(rperf_base, projecao.taxa, projecao.anos))

\* rperf_calc asked for a projection of 0 years at a rate that is not 0.
C10_Witness ==
    /\ host = "cli"
    /\ RequirementProduced
    /\ projecao.usa
    /\ projecao.anos = 0
    /\ RLt(RInt(0), projecao.taxa)
    /\ RLt(RInt(0), rperf_base)
    /\ rperf_final_requerido = rperf_base

\* The models named by the request's lines that resolve to no row of the
\* catalog: by family and core count in the endpoint, by index elsewhere.
Desconhecidas ==
    IF host = "api"
    THEN { linhas[i].modelo :
             i \in { j \in 1..Len(linhas) : Matches(df, linhas[j]) = <<>> } }
    ELSE { linhas[i].modelo :
             i \in { j \in 1..Len(linhas) : ~InIndex(df, linhas[j].modelo) } }

\* A request the host has answered, that passed the validation of its fields
\* and met a catalog loaded from a file with every column.
Answered ==
    /\ host \in {"api", "agent"}
    /\ pc = "done"
    /\ colunas = Colunas
    /\ df # <<>>
    /\ host = "api" => ApiValid(linhas, projecao)

\* C11: a request with an inventory line whose model is absent from the
\* catalog fails with an error that reaches the caller and names the
\* offending reference; no required performance is returned and no scenario
\* is produced.
C11_UnknownModelIsReported ==
    (Answered /\ Desconhecidas # {}) =>
        /\ outcome \in {"404", "erro interno"}
        /\ detail # {}
        /\ detail \subseteq Desconhecidas
        /\ rperf_base = RInt(0)
        /\ rperf_final_requerido = RInt(0)
        /\ cenarios_validos = <<>>
        /\ top_cenarios = <<>>

----------------------------------------------------------------------------
(* Properties of the load, checked under SpecCarga.                        *)

\* The columns a catalog entry is built from: the unique and the family
\* identifier, the cores, the total performance and the processor generation.
ColunasRequeridas == Colunas \ {"Frequencia_GHz"}

\* The cores field is a number once its unit marker is removed.
Legivel(row) ==
    LET texto == SelectSeq(row.Cores_Maximos, LAMBDA c : c # "c")
        corpo == IF texto # <<>> /\ texto[1] = "-" THEN Tail(texto) ELSE texto
    IN  corpo # <<>> /\ \A i \in 1..Len(corpo) : IsDigit(corpo[i])

Legiveis == SelectSeq(csv, Legivel)

\* The host holds no catalog.
SemCatalogo == df \in {None, <<>>} /\ df_alvo \in {None, <<>>}

\* No request has been evaluated: no required performance, no scenario.
NadaAvaliado ==
    /\ pc \notin {"collect", "calc", "rank"}
    /\ pc = "done" => outcome \in {"erro csv", "422", "500", "erro interno"}
    /\ rperf_base = RInt(0)
    /\ rperf_final_requerido = RInt(0)
    /\ cenarios_validos = <<>>
    /\ top_cenarios = <<>>

\* C12: a file that lacks a required column makes the catalog construction
\* fail: the host is left with no catalog and evaluates no sizing request;
\* a row whose cores field is no number is only dropped, and the construction
\* goes on with the other rows.
C12_MissingColumnFailsLoad ==
    pc # "load" =>
        IF ColunasRequeridas \subseteq colunas
        THEN /\ df # None
             /\ Len(df) = Len(Legiveis)
             /\ \A i \in 1..Len(df) :
                   /\ df[i].Modelo_Base = Legiveis[i].Modelo_Base
                   /\ df[i].rPerf_Total = Legiveis[i].rPerf_Total
        ELSE SemCatalogo /\ NadaAvaliado

----------------------------------------------------------------------------
(* Properties of data_preparation, checked under SpecPrep.                 *)

\* C13: every entry of df and of df_alvo has Cores_Maximos > 0 and
\* rPerf_por_Core = rPerf_Total / Cores_Maximos > 0; a row with a cores value
\* of 0 or below is dropped and is no candidate of rank_cenarios.
C13_RetainedEntriesArePositive ==
    pc # "load" =>
        /\ \A e \in Range(df) \cup Range(df_alvo) :
              /\ e.Cores_Maximos > 0
              /\ e.rPerf_por_Core = Rat(e.rPerf_Total, e.Cores_Maximos)
              /\ RLt(RInt(0), e.rPerf_por_Core)
        /\ \A s \in Emitted : s.cores_por_servidor > 0

----------------------------------------------------------------------------
(* Properties across the hosts, checked under Spec.                        *)

\* The Modelo_Unico of the catalog row a presented scenario stands for: the
\* endpoint identifies the row by its number in the file.
Configuracao(s) ==
    IF host = "api"
    THEN csv[CHOOSE i \in 1..Len(csv) : ToString(i - 1) = s.modelo_unico].Modelo_Unico
    ELSE s.modelo_unico

\* What a ranking presents: configuration, servers and cores per server, in
\* the order of the list.
Apresenta(lista) ==
    [i \in 1..Len(lista) |->
        <<Configuracao(lista[i]), lista[i].servidores, lista[i].cores_por_servidor>>]

\* The same of what rank_cenarios returns for a required performance.
ApresentaRank(R) ==
    LET lista == RankCenarios(FilterAlvo(Prepared(csv)), R)
    IN  [i \in 1..Len(lista) |->
            <<lista[i].modelo_unico, lista[i].servidores, lista[i].cores_por_servidor>>]

\* The host has answered a request with a ranking.
Presented ==
    /\ colunas = Colunas
    /\ pc = "done"
    /\ outcome \in {"ok", "sem cenarios"}

\* C14: for the same catalog and required performance every host presents
\* the ranking of rank_cenarios: the same configurations with the same server
\* counts and cores per server, in the same order.
C14_HostsPresentTheSameRanking ==
    Presented => Apresenta(top_cenarios) = ApresentaRank(rperf_final_requerido)

\* The catalog entries of the file, with their Modelo_Unico and Modelo_Base.
CatalogoAlvo == Range(FilterAlvo(Prepared(csv)))

\* C15: in every returned scenario modelo_unico and modelo_base are the
\* Modelo_Unico and the Modelo_Base of the catalog entry the scenario was
\* computed from, in rank_cenarios and in calcular_sizing.
C15_IdentifiersAreThoseOfTheEntry ==
    (Presented /\ host \in {"cli", "api"}) =>
        \A s \in Range(top_cenarios) :
            \E e \in CatalogoAlvo :
                /\ s.modelo_unico = e.index
                /\ s.modelo_base = e.Modelo_Base
                /\ s.servidores = NumServidores(e, rperf_final_requerido)
                /\ s.cores_por_servidor = CoresAtivos(e, rperf_final_requerido)

\* The catalog the host builds from the file when it starts.
Construido == IF host = "api" THEN ApiPrepared(csv, 0) ELSE Prepared(csv)

\* The base requirement of the request's inventory on a catalog.
BaseDe(cat) ==
    IF host = "api" THEN ApiRperfBase(cat, linhas)
    ELSE RperfBase(cat, inventario_client)

\* The ranking for a required performance on a target subset.
RankingDe(alvo, R) ==
    IF host = "api"
    THEN Top(Sorted(MelhoresPorModelo(ApiGeraCenarios(alvo, R), <<>>), <<>>))
    ELSE RankCenarios(alvo, R)

\* C16: after any sequence of sizing requests the full catalog and the target
\* subset are what the load built from the file (no request changed them), and
\* the result of a request answered after earlier ones is that of its own
\* inventory and rate on that catalog, whatever the earlier requests were.
C16_CatalogIsReadOnly ==
    (host # "agent" /\ pc # "load" /\ outcome # "erro csv" /\ df # <<>>) =>
        LET cat == Construido
            alvo == FilterAlvo(cat)
        IN  /\ df = cat
            /\ df_alvo = alvo
            /\ (atendidas > 0 /\ pc = "done" /\ outcome = "ok") =>
                  /\ rperf_base = BaseDe(cat)
                  /\ top_cenarios = RankingDe(alvo, rperf_final_requerido)

\* The endpoint has answered a later request with scenarios.
C16_Witness ==
    /\ host = "api"
    /\ atendidas = MaxRequests
    /\ pc = "done"
    /\ outcome = "ok"
    /\ top_cenarios # <<>>
    /\ df = ApiPrepared(csv, 0)

----------------------------------------------------------------------------
(* Properties of rank_cenarios on the entries data_preparation retains,    *)
(* checked under SpecPrep.                                                 *)

\* The performance of k servers with c cores each of the entry's model.
Capacidade(e, k, c) == RMul(RInt(k * c), e.rPerf_por_Core)

\* C17: for a required performance > 0 and every target entry the server
\* count n of rank_cenarios is at least 1 and is the smallest integer with
\* n x Cores_Maximos x rPerf_por_Core >= required, and the cores per server
\* of an emitted scenario is the smallest even integer c with
\* n x c x rPerf_por_Core >= required.
C17_CountsAreTheSmallest ==
    (Ranked /\ RLt(RInt(0), rperf_final_requerido)) =>
        /\ \A e \in Range(df_alvo) :
              LET n == NumServidores(e, rperf_final_requerido)
              IN  /\ n >= 1
                  /\ RLe(rperf_final_requerido, Capacidade(e, n, e.Cores_Maximos))
                  /\ RLt(Capacidade(e, n - 1, e.Cores_Maximos), rperf_final_requerido)
        /\ \A s \in Range(cenarios_validos) :
              LET e == EntryOf(s)
                  n == s.servidores
                  c == s.cores_por_servidor
              IN  /\ n = NumServidores(e, rperf_final_requerido)
                  /\ c % 2 = 0
                  /\ RLe(rperf_final_requerido, Capacidade(e, n, c))
                  /\ RLt(Capacidade(e, n, c - 2), rperf_final_requerido)

====
